---- MODULE Spec2Model ----
(***************************************************************************)
(* Model of the three scripts of the repository.                           *)
(*                                                                         *)
(*  - challenges/challenge_2026_02_11_1770833879583.py: class Solution     *)
(*    with process_data (deduplicate, then sort) and validate_input.       *)
(*    process_data is modelled line by line, one action per source line,   *)
(*    for a set of callers that each own a frame (data, result, seen,      *)
(*    item, the iterator position) and share one heap of list objects.     *)
(*  - python_guide_416c84.py: main() gathering three greet() coroutines    *)
(*    on the asyncio event loop (second part of the module).               *)
(***************************************************************************)
EXTENDS Integers, Sequences, FiniteSets, TLC

\* ------------------------------------------------------------------ bounds

\* longest input list of a single caller (specification Spec)
MaxLen == 4
\* longest input list of each of the concurrent callers (SpecConc)
ConcLen == 2
\* integers 1..MaxVal are the int elements
MaxVal == 2
\* calls of process_data one caller makes in a row, feeding the result back
MaxCalls == 2

\* ------------------------------------------------------------------ values

\* Python values that can be list elements.  Two mutually incomparable
\* hashable types (int, str) and one unhashable value (a list).
\* A str value [k |-> "str", v |-> n] stands for the n-th letter.
IntVals == {[k |-> "int", v |-> n] : n \in 1..MaxVal}
StrVals == {[k |-> "str", v |-> n] : n \in 1..2}
ListVals == {[k |-> "list", v |-> 1]}
Values == IntVals \cup StrVals \cup ListVals

Hashable(x) == x.k # "list"

\* (mutant) the order reversed, as with sorted(result, reverse=True)
Greater(x, y) == x.v > y.v

\* x < y of two values of one type
Less(x, y) == x.v < y.v

\* (mutant) a sort that handles numbers only
OnlyInts(s) == \A i \in 1..Len(s) : s[i].k = "int"

\* '<' is supported between every two elements: they are of one type
Comparable(s) == \A i, j \in 1..Len(s) : s[i].k = s[j].k

SeqsUpTo(V, n) == UNION {[1..m -> V] : m \in 0..n}

Elems(s) == {s[i] : i \in 1..Len(s)}

\* ------------------------------------------------------------------ state

Callers == {"c1", "c2"}
\* references of list objects: room for two input lists and for the two
\* lists (result, sorted(result)) each call creates
ObjIds == 1..(2 * MaxCalls + 2)
Tasks == {"Alice", "Bob", "Charlie"}
\* the reference None
NoneRef == 0

VARIABLES
    heap,      \* list objects: [ObjIds -> [live : BOOLEAN, items : Seq(Values)]]
    data,      \* per caller: the argument, a reference or NoneRef
    arg,       \* per caller: the argument as it was when the call was made
    pc,        \* per caller: the line about to run, or done / error / absent
    result,    \* per caller: reference of the accumulation list
    seen,      \* per caller: the set of values already accepted
    it,        \* per caller: elements the for loop has fetched so far
    item,      \* per caller: the loop variable
    ret,       \* per caller: the returned reference
    valid,     \* per caller: what validate_input returned, or "unset"
    calls,     \* per caller: calls of process_data started
    \* asyncio tutorial
    now,       \* loop.time(), in ticks
    ready,     \* the loop's FIFO of callbacks ready to run
    timers,    \* scheduled timer handles: set of [when, task]
    tpc,       \* per task: position in greet()
    mpc,       \* position in main()
    pending,   \* children the gather still waits for
    results,   \* results collected by gather, by argument position
    out,       \* lines printed so far
    startTime, \* main's start_time
    todo,      \* callbacks left to run in this iteration of the loop
    busy       \* ticks elapsed since the last callback ended

normVars == <<heap, data, arg, pc, result, seen, it, item, ret, valid, calls>>
asyncVars == <<now, ready, timers, tpc, mpc, pending, results, out, startTime, todo, busy>>
vars == <<normVars, asyncVars>>

\* a local not bound yet
NoItem == [k |-> "none", v |-> 0]

Free == [live |-> FALSE, items |-> <<>>]
Obj(s) == [live |-> TRUE, items |-> s]
Absent == [present |-> FALSE, items |-> <<>>]
Present(s) == [present |-> TRUE, items |-> s]

\* a fresh object: the lowest reference not in use
FreshRef(h) == CHOOSE i \in ObjIds : ~h[i].live /\ \A j \in ObjIds : ~h[j].live => i <= j


\* ------------------------------------------------- sorted(), as a stable
\* insertion sort on '<' (what list.sort does on short lists)

RECURSIVE Insert(_, _)
\* s with x put before the first element that x is less than
Insert(x, s) ==
    IF s = <<>> THEN <<x>>
    ELSE IF Less(x, Head(s)) THEN <<x>> \o s
    ELSE <<Head(s)>> \o Insert(x, Tail(s))

RECURSIVE Sorted(_)
Sorted(s) ==
    IF s = <<>> THEN <<>>
    ELSE Insert(s[Len(s)], Sorted(SubSeq(s, 1, Len(s) - 1)))

\* ------------------------------------------------- Solution.process_data

\* the accumulation list and the seen set of caller c: locals of c's frame
ResultOf(c) == result[c]

\* (mutant) seen kept on the instance, one set for all calls
SharedSeen(c) == UNION {seen[d] : d \in Callers}

SeenOf(c) == seen[c]

\* (mutant) result = data: the accumulation list is the input list
AliasedResultRef(c) == IF data[c] # NoneRef THEN data[c] ELSE FreshRef(heap)

\* line 8: the reference 'result' is bound to, a new empty list
NewResultRef(c) == FreshRef(heap)

\* (mutant) the loop stops one element early
LoopDoneEarly(c) == it[c] >= Len(heap[data[c]].items) - 1

\* line 10: the iterator is exhausted
LoopDone(c) == it[c] >= Len(heap[data[c]].items)

\* (mutant) the membership test dropped
AlwaysNew(c) == TRUE

\* line 11: item not in seen
NotInSeen(c) == item[c] \notin SeenOf(c)

\* (mutant) seen.add(item) dropped
SeenNotAdded(c) == SeenOf(c)

\* line 12: seen after seen.add(item)
SeenAfterAdd(c) == SeenOf(c) \cup {item[c]}

\* (mutant) result = [item] instead of result.append(item)
ResultReplaced(c) == <<item[c]>>

\* line 13: the accumulation list after result.append(item)
ResultAfterAppend(c) == Append(heap[ResultOf(c)].items, item[c])

\* line 8: result = []
ResultInit(c) ==
    /\ pc[c] = "l8"
    /\ LET r == NewResultRef(c) IN
         /\ heap' = [heap EXCEPT ![r] = Obj(<<>>)]
         /\ result' = [result EXCEPT ![c] = r]
    /\ pc' = [pc EXCEPT ![c] = "l9"]
    /\ UNCHANGED <<data, arg, seen, it, item, ret, valid, calls, asyncVars>>

\* line 9: seen = set()
SeenInit(c) ==
    /\ pc[c] = "l9"
    /\ seen' = [seen EXCEPT ![c] = {}]
    /\ pc' = [pc EXCEPT ![c] = "iter"]
    /\ UNCHANGED <<heap, data, arg, result, it, item, ret, valid, calls, asyncVars>>

\* line 10, on entry: iter(data) -- iter(None) raises TypeError
ForIter(c) ==
    /\ pc[c] = "iter"
    /\ IF data[c] = NoneRef
       THEN /\ pc' = [pc EXCEPT ![c] = "error"]
            /\ UNCHANGED it
       ELSE /\ it' = [it EXCEPT ![c] = 0]
            /\ pc' = [pc EXCEPT ![c] = "l10"]
    /\ UNCHANGED <<heap, data, arg, result, seen, item, ret, valid, calls, asyncVars>>

\* line 10: for item in data -- the next element is bound to item, or the
\* loop ends
ForNext(c) ==
    /\ pc[c] = "l10"
    /\ IF LoopDone(c)
       THEN /\ pc' = [pc EXCEPT ![c] = "l14"]
            /\ UNCHANGED <<it, item>>
       ELSE /\ item' = [item EXCEPT ![c] = heap[data[c]].items[it[c] + 1]]
            /\ it' = [it EXCEPT ![c] = it[c] + 1]
            /\ pc' = [pc EXCEPT ![c] = "l11"]
    /\ UNCHANGED <<heap, data, arg, result, seen, ret, valid, calls, asyncVars>>

\* line 11: if item not in seen -- hashing an unhashable item raises TypeError
TestSeen(c) ==
    /\ pc[c] = "l11"
    /\ pc' = [pc EXCEPT ![c] =
                IF ~Hashable(item[c]) THEN "error"
                ELSE IF NotInSeen(c) THEN "l12" ELSE "l10"]
    /\ UNCHANGED <<heap, data, arg, result, seen, it, item, ret, valid, calls, asyncVars>>

\* line 12: seen.add(item)
SeenAdd(c) ==
    /\ pc[c] = "l12"
    /\ seen' = [seen EXCEPT ![c] = SeenAfterAdd(c)]
    /\ pc' = [pc EXCEPT ![c] = "l13"]
    /\ UNCHANGED <<heap, data, arg, result, it, item, ret, valid, calls, asyncVars>>

\* line 13: result.append(item)
ResultAppend(c) ==
    /\ pc[c] = "l13"
    /\ heap' = [heap EXCEPT ![ResultOf(c)] = Obj(ResultAfterAppend(c))]
    /\ pc' = [pc EXCEPT ![c] = "l10"]
    /\ UNCHANGED <<data, arg, result, seen, it, item, ret, valid, calls, asyncVars>>

\* line 14: return sorted(result) -- a new list; '<' between two elements of
\* different types raises TypeError
ReturnSorted(c) ==
    /\ pc[c] = "l14"
    /\ IF Comparable(heap[ResultOf(c)].items)
       THEN LET r == FreshRef(heap) IN
              /\ heap' = [heap EXCEPT ![r] = Obj(Sorted(heap[ResultOf(c)].items))]
              /\ ret' = [ret EXCEPT ![c] = r]
              /\ pc' = [pc EXCEPT ![c] = "done"]
       ELSE /\ pc' = [pc EXCEPT ![c] = "error"]
            /\ UNCHANGED <<heap, ret>>
    /\ UNCHANGED <<data, arg, result, seen, it, item, valid, calls, asyncVars>>

\* the caller passes what process_data returned to process_data again, a
\* call with a frame of its own
CallAgain(c) ==
    /\ pc[c] = "done"
    /\ calls[c] < MaxCalls
    /\ data' = [data EXCEPT ![c] = ret[c]]
    /\ arg' = [arg EXCEPT ![c] = Present(heap[ret[c]].items)]
    /\ calls' = [calls EXCEPT ![c] = calls[c] + 1]
    /\ valid' = [valid EXCEPT ![c] = "unset"]
    /\ pc' = [pc EXCEPT ![c] = "l8"]
    /\ result' = [result EXCEPT ![c] = NoneRef]
    /\ seen' = [seen EXCEPT ![c] = {}]
    /\ it' = [it EXCEPT ![c] = 0]
    /\ item' = [item EXCEPT ![c] = NoItem]
    /\ UNCHANGED <<heap, ret, asyncVars>>

\* ------------------------------------------------ Solution.validate_input

\* (mutant) len(data) >= 0
ValidateNonNegative(d, h) == IF d = NoneRef THEN FALSE ELSE Len(h[d].items) >= 0

\* line 17: data is not None and len(data) > 0
ValidateResult(d, h) == IF d = NoneRef THEN FALSE ELSE Len(h[d].items) > 0

\* a call of validate_input(data), before or after process_data ran
validate_input(c) ==
    /\ pc[c] \in {"l8", "done", "error"}
    /\ valid' = [valid EXCEPT ![c] =
                    IF ValidateResult(data[c], heap) THEN "true" ELSE "false"]
    /\ UNCHANGED <<heap, data, arg, pc, result, seen, it, item, ret, calls, asyncVars>>

\* ------------------------------------------------ process_data, as a function

RECURSIVE Dedup(_, _, _)
\* lines 10-13 on the elements s still to come, from the accumulation list
\* acc and the set sn: <<ok, list>>, ok FALSE when hashing raised
Dedup(s, acc, sn) ==
    IF s = <<>> THEN <<TRUE, acc>>
    ELSE IF ~Hashable(Head(s)) THEN <<FALSE, acc>>
    ELSE IF Head(s) \notin sn
         THEN Dedup(Tail(s), Append(acc, Head(s)), sn \cup {Head(s)})
         ELSE Dedup(Tail(s), acc, sn)

\* process_data(a) run on its own: [ok, items], ok FALSE when it raised
process_data(a) ==
    IF ~a.present THEN [ok |-> FALSE, items |-> <<>>]
    ELSE LET d == Dedup(a.items, <<>>, {}) IN
         IF d[1] /\ Comparable(d[2])
         THEN [ok |-> TRUE, items |-> Sorted(d[2])]
         ELSE [ok |-> FALSE, items |-> <<>>]


\* ------------------------------------------------ python_guide: greet, main

\* lines 50-52: the delay each greet() is called with, in seconds
AliceDelay == 2
BobDelay == 1
CharlieDelay == 3
Delay(t) == IF t = "Alice" THEN AliceDelay ELSE IF t = "Bob" THEN BobDelay ELSE CharlieDelay

\* lines 57-61: the order in which the coroutines are passed to gather
GatherArgs == <<"Alice", "Bob", "Charlie">>

\* clock ticks in a second
TicksPerSecond == 3
\* a callback (a print, a call of sleep or gather) runs for less than a second
MaxBusy == TicksPerSecond - 1
\* the clock is not followed further than this
Horizon == (CharlieDelay + 1) * TicksPerSecond + 4 * MaxBusy

\* (mutant) asyncio.sleep(1), whatever the delay
WakeAfterOneSecond(t) == now + TicksPerSecond

\* line 30: asyncio.sleep(delay) -- the time the sleeping task is woken
WakeTime(t) == now + Delay(t) * TicksPerSecond

Line(e, who, n) == [e |-> e, who |-> who, n |-> n]
Msg(t) == [text |-> "Greeting completed", who |-> t]
NoMsg == [text |-> "", who |-> ""]
StepOf(who) == [cb |-> "step", who |-> who]
WakeOf(t) == [cb |-> "wake", who |-> t]
GatherDoneOf(t) == [cb |-> "gather_done", who |-> t]

\* asyncio.run(main()): the loop holds the first step of main's task
AsyncInit ==
    /\ now = 0 /\ ready = <<StepOf("main")>> /\ timers = {} /\ todo = 0 /\ busy = 0
    /\ tpc = [t \in Tasks |-> "new"] /\ mpc = "l45" /\ pending = {}
    /\ results = [t \in Tasks |-> NoMsg] /\ out = <<>> /\ startTime = 0

\* timer handles that are due
Due == {h \in timers : h.when <= now}

\* q lists the handles of D once each, earliest first
InWhenOrder(q, D) ==
    /\ Len(q) = Cardinality(D)
    /\ {q[i] : i \in 1..Len(q)} = D
    /\ \A i, j \in 1..Len(q) : i < j => q[i].when <= q[j].when

\* the loop starts an iteration: the due timers' callbacks join the ready
\* queue, earliest first, and the callbacks now in the queue will be run
StartIteration ==
    /\ mpc \notin {"off", "done"}
    /\ todo = 0
    /\ ready # <<>> \/ Due # {}
    /\ \E q \in [1..Cardinality(Due) -> Due] :
         /\ InWhenOrder(q, Due)
         /\ ready' = ready \o [i \in 1..Len(q) |-> WakeOf(q[i].task)]
         /\ todo' = Len(ready) + Len(q)
    /\ timers' = timers \ Due
    /\ UNCHANGED <<now, tpc, mpc, pending, results, out, startTime, busy, normVars>>

\* the loop runs the callback at the head of the ready queue
Ran ==
    /\ todo' = todo - 1
    /\ busy' = 0
    /\ UNCHANGED <<now, normVars>>

\* lines 45-61: main runs up to the await -- gather wraps each coroutine in a
\* task, whose first step is scheduled, in argument order
MainStart ==
    /\ todo > 0 /\ Head(ready) = StepOf("main")
    /\ mpc = "l45"
    /\ out' = Append(out, Line("header", "", 0))
    /\ startTime' = now
    /\ tpc' = [t \in Tasks |-> "l25"]
    /\ pending' = Tasks
    /\ ready' = Tail(ready) \o [i \in 1..Len(GatherArgs) |-> StepOf(GatherArgs[i])]
    /\ mpc' = "l57"
    /\ UNCHANGED <<timers, results>>
    /\ Ran

\* lines 63-66: main is resumed with the gathered results
MainResume ==
    /\ todo > 0 /\ Head(ready) = StepOf("main")
    /\ mpc = "l57"
    /\ out' = out \o <<Line("all completed", "", 0),
                       Line("results", "", 0),
                       Line("total time", "", now - startTime)>>
    /\ mpc' = "done"
    /\ ready' = Tail(ready)
    /\ UNCHANGED <<timers, tpc, pending, results, startTime>>
    /\ Ran

\* lines 25-30: greet prints and sleeps
GreetStart(t) ==
    /\ todo > 0 /\ Head(ready) = StepOf(t)
    /\ tpc[t] = "l25"
    /\ out' = Append(out, Line("starting", t, 0))
    /\ timers' = timers \cup {[when |-> WakeTime(t), task |-> t]}
    /\ tpc' = [tpc EXCEPT ![t] = "l30"]
    /\ ready' = Tail(ready)
    /\ UNCHANGED <<mpc, pending, results, startTime>>
    /\ Ran

\* the timer of a sleep fires: the sleep's future gets its result and the
\* step of the task awaiting it is scheduled
SleepWake(t) ==
    /\ todo > 0 /\ Head(ready) = WakeOf(t)
    /\ tpc[t] = "l30"
    /\ tpc' = [tpc EXCEPT ![t] = "woken"]
    /\ ready' = Append(Tail(ready), StepOf(t))
    /\ UNCHANGED <<timers, mpc, pending, results, out, startTime>>
    /\ Ran

\* lines 31-32: greet is resumed, prints and returns; the finished task
\* schedules the callback gather added to it
GreetResume(t) ==
    /\ todo > 0 /\ Head(ready) = StepOf(t)
    /\ tpc[t] = "woken"
    /\ out' = Append(out, Line("hello", t, Delay(t)))
    /\ tpc' = [tpc EXCEPT ![t] = "done"]
    /\ ready' = Append(Tail(ready), GatherDoneOf(t))
    /\ UNCHANGED <<timers, mpc, pending, results, startTime>>
    /\ Ran

\* gather's callback of a finished child: it records the child's result at
\* the child's position; after the last child it resumes main
GatherDone(t) ==
    /\ todo > 0 /\ Head(ready) = GatherDoneOf(t)
    /\ results' = [results EXCEPT ![t] = Msg(t)]
    /\ pending' = pending \ {t}
    /\ ready' = IF pending \ {t} = {} THEN Append(Tail(ready), StepOf("main"))
                ELSE Tail(ready)
    /\ UNCHANGED <<timers, tpc, mpc, out, startTime>>
    /\ Ran

\* the loop waits in select: nothing is ready, a timer is scheduled
Idle == todo = 0 /\ ready = <<>> /\ timers # {}

\* time passes: while the loop waits, or (boundedly) while a callback runs
Tick ==
    /\ mpc \notin {"off", "done"}
    /\ now < Horizon
    /\ Idle \/ (~Idle /\ busy < MaxBusy)
    /\ now' = now + 1
    /\ busy' = IF Idle THEN busy ELSE busy + 1
    /\ UNCHANGED <<ready, timers, tpc, mpc, pending, results, out, startTime, todo, normVars>>

\* ------------------------------------------------ specifications

\* the asyncio tutorial has not been started
AsyncOff ==
    /\ now = 0 /\ ready = <<>> /\ timers = {} /\ todo = 0 /\ busy = 0
    /\ tpc = [t \in Tasks |-> "new"] /\ mpc = "off" /\ pending = {}
    /\ results = [t \in Tasks |-> NoMsg] /\ out = <<>> /\ startTime = 0

\* the reference of caller c's input list
InputRef(c) == IF c = "c1" THEN 1 ELSE 2

\* what a caller may pass: None, or a list of at most n elements of V
Inputs(V, n) == {Absent} \cup {Present(s) : s \in SeqsUpTo(V, n)}

\* each caller of active is about to call process_data with an argument of
\* its own, a list of at most n elements of V or None
InitCalls(active, V, n) ==
    /\ arg \in [Callers -> Inputs(V, n)]
    /\ \A c \in Callers \ active : arg[c] = Absent
    /\ data = [c \in Callers |-> IF arg[c].present THEN InputRef(c) ELSE NoneRef]
    /\ heap = [i \in ObjIds |->
                 IF \E c \in Callers : arg[c].present /\ InputRef(c) = i
                 THEN Obj(arg[CHOOSE c \in Callers : InputRef(c) = i].items)
                 ELSE Free]
    /\ pc = [c \in Callers |-> IF c \in active THEN "l8" ELSE "absent"]
    /\ result = [c \in Callers |-> NoneRef]
    /\ seen = [c \in Callers |-> {}]
    /\ it = [c \in Callers |-> 0]
    /\ item = [c \in Callers |-> NoItem]
    /\ ret = [c \in Callers |-> NoneRef]
    /\ valid = [c \in Callers |-> "unset"]
    /\ calls = [c \in Callers |-> IF c \in active THEN 1 ELSE 0]

\* one caller
Init ==
    /\ InitCalls({"c1"}, Values, MaxLen)
    /\ AsyncOff

Step(c) ==
    \/ ResultInit(c)
    \/ SeenInit(c)
    \/ ForIter(c)
    \/ ForNext(c)
    \/ TestSeen(c)
    \/ SeenAdd(c)
    \/ ResultAppend(c)
    \/ ReturnSorted(c)

Next ==
    \E c \in Callers :
        \/ Step(c)
        \/ CallAgain(c)
        \/ validate_input(c)

Spec == Init /\ [][Next]_vars

\* two callers, each in a call of its own on a list of ints (or None),
\* interleaved line by line
InitConc ==
    /\ InitCalls(Callers, IntVals, ConcLen)
    /\ AsyncOff

NextConc == \E c \in Callers : Step(c)

SpecConc == InitConc /\ [][NextConc]_vars


\* no caller of Solution
NormOff ==
    /\ heap = [i \in ObjIds |-> Free]
    /\ data = [c \in Callers |-> NoneRef]
    /\ arg = [c \in Callers |-> Absent]
    /\ pc = [c \in Callers |-> "absent"]
    /\ result = [c \in Callers |-> NoneRef]
    /\ seen = [c \in Callers |-> {}]
    /\ it = [c \in Callers |-> 0]
    /\ item = [c \in Callers |-> NoItem]
    /\ ret = [c \in Callers |-> NoneRef]
    /\ valid = [c \in Callers |-> "unset"]
    /\ calls = [c \in Callers |-> 0]

\* the asyncio tutorial, run as a script
InitAsync == NormOff /\ AsyncInit

NextAsync ==
    \/ StartIteration
    \/ MainStart
    \/ \E t \in Tasks : GreetStart(t)
    \/ \E t \in Tasks : SleepWake(t)
    \/ \E t \in Tasks : GreetResume(t)
    \/ \E t \in Tasks : GatherDone(t)
    \/ MainResume
    \/ Tick

SpecAsync == InitAsync /\ [][NextAsync]_vars


\* ================================================================ claims

\* what caller c passed and what its call returned
In(c) == arg[c].items
Out(c) == heap[ret[c]].items
Returned(c) == pc[c] = "done"

\* the natural order of the element type: numeric on ints, alphabetic on strs
NatLeq(x, y) == x.k = y.k /\ x.v <= y.v

NoDuplicates(s) == \A i, j \in 1..Len(s) : i # j => s[i] # s[j]

\* C1: the set of values of process_data(x) is the set of values of x
C1_SetEquivalence ==
    \A c \in Callers : Returned(c) => Elems(Out(c)) = Elems(In(c))

\* a call has returned on an input with a repeated value and several values
C1_Witness ==
    \E c \in Callers :
        /\ Returned(c)
        /\ Len(In(c)) >= 3
        /\ Cardinality(Elems(In(c))) = 2
        /\ Elems(Out(c)) = Elems(In(c))

\* C2: process_data(x) is sorted ascending in the natural order of the
\* element type: output[i] <= output[j] for all positions i < j
C2_Ordering ==
    \A c \in Callers :
        Returned(c) =>
            \A i, j \in 1..Len(Out(c)) : i < j => NatLeq(Out(c)[i], Out(c)[j])

\* a call has returned on an input that was in descending order
C2_Witness ==
    \E c \in Callers :
        /\ Returned(c)
        /\ Len(In(c)) >= 3
        /\ \A i \in 1..(Len(In(c)) - 1) : NatLeq(In(c)[i + 1], In(c)[i])
        /\ Len(Out(c)) >= 2
        /\ Out(c) # In(c)

\* C3: no two positions of process_data(x) hold equal values, and its length
\* is the number of distinct values of x, hence at most the length of x
C3_Distinctness ==
    \A c \in Callers :
        Returned(c) =>
            /\ NoDuplicates(Out(c))
            /\ Len(Out(c)) = Cardinality(Elems(In(c)))
            /\ Len(Out(c)) <= Len(In(c))

\* a call has returned a list shorter than its input, of several values
C3_Witness ==
    \E c \in Callers :
        /\ Returned(c)
        /\ Len(Out(c)) >= 2
        /\ Len(Out(c)) < Len(In(c))

\* C4: process_data(process_data(x)) = process_data(x): a call on the list an
\* earlier call returned returns an equal list
C4_Idempotence ==
    \A c \in Callers : (Returned(c) /\ calls[c] >= 2) => Out(c) = In(c)

\* the second call has returned a list of several values, a new object
C4_Witness ==
    \E c \in Callers :
        /\ Returned(c)
        /\ calls[c] = 2
        /\ Len(Out(c)) >= 2
        /\ ret[c] # data[c]

\* C5: validate_input(data) is true exactly when data is not None and has at
\* least one element; None and the empty list both give false
C5_Validate ==
    \A c \in Callers :
        valid[c] # "unset" =>
            /\ ~arg[c].present => valid[c] = "false"
            /\ (arg[c].present /\ In(c) = <<>>) => valid[c] = "false"
            /\ (arg[c].present /\ Len(In(c)) >= 1) => valid[c] = "true"

\* validate_input has answered on the empty list
C5_Witness ==
    \E c \in Callers : valid[c] = "false" /\ arg[c].present /\ In(c) = <<>>

\* the input of c is a list of hashable values of one type
WellTyped(c) ==
    /\ arg[c].present
    /\ \A i \in 1..Len(In(c)) : In(c)[i].k \in {"int", "str"}
    /\ \A i, j \in 1..Len(In(c)) : In(c)[i].k = In(c)[j].k

\* C6: on a list of hashable values of one ordered type, the empty list
\* included, process_data never raises, is never stuck before it returns,
\* fetches no more elements than the list has, and returns [] for []
C6_Total ==
    \A c \in Callers :
        WellTyped(c) =>
            /\ pc[c] # "error"
            /\ pc[c] # "done" => ENABLED Step(c)
            /\ it[c] <= Len(In(c))
            /\ (Returned(c) /\ In(c) = <<>>) => Out(c) = <<>>

\* a call has returned on a list of several strs
C6_Witness ==
    \E c \in Callers :
        /\ Returned(c)
        /\ WellTyped(c)
        /\ Len(In(c)) >= 2
        /\ \A i \in 1..Len(In(c)) : In(c)[i].k = "str"
        /\ Len(Out(c)) >= 2

\* C7: under every interleaving of the lines of concurrent calls, each call
\* ends as it ends when run alone (the same list, or raising), and the
\* calls' accumulation lists are different objects
C7_Isolation ==
    /\ \A c \in Callers :
        /\ Returned(c) => (process_data(arg[c]).ok /\ Out(c) = process_data(arg[c]).items)
        /\ pc[c] = "error" => ~process_data(arg[c]).ok
    /\ \A c, d \in Callers :
        (c # d /\ result[c] # NoneRef /\ result[d] # NoneRef) => result[c] # result[d]

\* both calls have returned, on inputs that share a value
C7_Witness ==
    /\ \A c \in Callers : Returned(c) /\ Len(In(c)) >= 2
    /\ Elems(In("c1")) \cap Elems(In("c2")) # {}
    /\ In("c1") # In("c2")

\* C8: process_data and validate_input leave the input list as it was, and
\* process_data returns a list object other than its input
C8_InputUnchanged ==
    \A c \in Callers :
        /\ data[c] # NoneRef => (heap[data[c]].live /\ heap[data[c]].items = In(c))
        /\ Returned(c) => (ret[c] # NoneRef /\ heap[ret[c]].live /\ ret[c] # data[c])

\* both operations have run on a list that was sorted and duplicate-free
C8_Witness ==
    \E c \in Callers :
        /\ Returned(c)
        /\ valid[c] # "unset"
        /\ calls[c] = 1
        /\ Len(In(c)) >= 2
        /\ Out(c) = In(c)
        /\ ret[c] # data[c]

RECURSIVE FirstOccurrences(_, _)
\* the values of the first n elements of x, each once, at its first occurrence
FirstOccurrences(x, n) ==
    IF n = 0 THEN <<>>
    ELSE IF \E j \in 1..(n - 1) : x[j] = x[n]
         THEN FirstOccurrences(x, n - 1)
         ELSE Append(FirstOccurrences(x, n - 1), x[n])

\* elements of the input the loop of c has dealt with completely
Processed(c) == IF pc[c] \in {"l10", "l14"} THEN it[c] ELSE it[c] - 1

\* C10: loop invariant of process_data: after any prefix of the input the
\* accumulation list holds the distinct values of the prefix in order of
\* first occurrence, without duplicates, and seen is its set of values; a
\* step adds the item to both (seen first) or changes neither
C10_LoopInvariant ==
    \A c \in Callers :
        pc[c] \in {"l10", "l11", "l12", "l13", "l14"} =>
            LET acc == heap[result[c]].items IN
              /\ acc = FirstOccurrences(In(c), Processed(c))
              /\ NoDuplicates(acc)
              /\ pc[c] \in {"l11", "l12", "l13"} => item[c] = In(c)[it[c]]
              /\ pc[c] \in {"l12", "l13"} => item[c] \notin Elems(acc)
              /\ seen[c] = IF pc[c] = "l13" THEN Elems(acc) \cup {item[c]}
                           ELSE Elems(acc)

\* the loop has dealt with a whole input that repeats a value
C10_Witness ==
    \E c \in Callers :
        /\ pc[c] = "l10"
        /\ it[c] = Len(In(c))
        /\ Len(In(c)) >= 3
        /\ Len(heap[result[c]].items) = 2
        /\ seen[c] = Elems(In(c))

\* position of the line (e, who) in the output, 0 when not printed
Pos(e, who) ==
    IF \E i \in 1..Len(out) : out[i].e = e /\ out[i].who = who
    THEN CHOOSE i \in 1..Len(out) : out[i].e = e /\ out[i].who = who
    ELSE 0

====
